---- MODULE Spec2Model ----
(***************************************************************************)
(* A model of fetch_proxies.py: the node pipeline of main                  *)
(* (deduplicate_proxies, filter_blocked_regions, test_proxies_latency,     *)
(* build_config with classify_by_region, write_output).                    *)
(*                                                                         *)
(* Strings are sequences of characters.  An ASCII character is the         *)
(* one-character string itself; any other code point is written "U+XXXX".  *)
(* A proxy dict is an object of the heap all_proxies (dicts are mutated in *)
(* place by the code); a list of proxies is a sequence of heap indices.    *)
(***************************************************************************)
EXTENDS Integers, Sequences, FiniteSets, TLC

VARIABLES
  pc,             \* where the run is
  all_proxies,    \* the heap: every raw descriptor object, by input position
  proxies,        \* the local `proxies` of main / the prober's parameter
  arg,            \* the list handed to the call that produced `proxies`
  entry_names,    \* the names the objects had when test_proxies_latency was entered
  calls,          \* the calls main has made, each with the length of its result
  config,         \* config_data returned by build_config
  output,         \* what write_output dumped
  region_groups,  \* the OrderedDict of main's step 8
  futures,        \* future_to_proxy: one probe task per proxy
  completed,      \* the order in which as_completed yielded the futures
  alive_proxies,  \* (proxy, latency) pairs
  timeout_count,
  tested,
  result          \* the prober's result list

vars == <<pc, all_proxies, proxies, arg, entry_names, calls, config, output,
          region_groups, futures, completed, alive_proxies, timeout_count,
          tested, result>>

proberVars == <<futures, completed, alive_proxies, timeout_count, tested, result>>

mainVars == <<arg, calls, config, output, region_groups>>

(***************************************************************************)
(* Bounds of the model.                                                    *)
(***************************************************************************)
MaxRaw == 3        \* raw descriptors main collects
MaxList == 3       \* descriptors the synchronous stages are run on
MaxProbe == 3      \* proxies handed to the prober when it is run on its own

(***************************************************************************)
(* Characters and strings.                                                 *)
(***************************************************************************)
Uppers == <<"A","B","C","D","E","F","G","H","I","J","K","L","M",
            "N","O","P","Q","R","S","T","U","V","W","X","Y","Z">>

Lowers == <<"a","b","c","d","e","f","g","h","i","j","k","l","m",
            "n","o","p","q","r","s","t","u","v","w","x","y","z">>

ToLower == [c \in {Uppers[i] : i \in 1..26} |->
              Lowers[CHOOSE i \in 1..26 : Uppers[i] = c]]

\* re.I: characters are compared with their case folded
Lower(c) == IF c \in DOMAIN ToLower THEN ToLower[c] ELSE c

Whitespace == {" ", "\t", "\n", "\r"}

RECURSIVE LStrip(_)
LStrip(s) ==
  IF s # <<>> /\ Head(s) \in Whitespace THEN LStrip(Tail(s)) ELSE s

RECURSIVE RStrip(_)
RStrip(s) ==
  IF s # <<>> /\ s[Len(s)] \in Whitespace
  THEN RStrip(SubSeq(s, 1, Len(s) - 1)) ELSE s

\* str.strip()
Strip(s) == RStrip(LStrip(s))

DigitChars == <<"0","1","2","3","4","5","6","7","8","9">>

\* str(n) of a non-negative integer
RECURSIVE Digits(_)
Digits(n) ==
  IF n < 10 THEN <<DigitChars[n + 1]>>
  ELSE Digits(n \div 10) \o <<DigitChars[(n % 10) + 1]>>

\* f"{name}_{count}"
SuffixedName(name, count) == name \o <<"_">> \o Digits(count)

\* Latencies are kept in tenths of a millisecond (round(latency_ms, 1));
\* int(latency) truncates.
IntMs(latency) == latency \div 10

\* f"[{int(latency)}ms] {name}"
LatencyName(latency, name) ==
  <<"[">> \o Digits(IntMs(latency)) \o <<"m","s","]"," ">> \o name

(***************************************************************************)
(* Regular expressions.  A pattern (?:a|b|...) is the set of its           *)
(* alternatives; an alternative is a sequence of literal characters and of *)
(* "ANY?", which stands for `.?`.  With re.I the literals of the compiled   *)
(* pattern and the characters of the string are compared case-folded.      *)
(***************************************************************************)
\* Whether alt, from its k-th element on, matches the folded string s at i
RECURSIVE MatchHere(_,_,_,_)
MatchHere(alt, k, s, i) ==
  IF k > Len(alt) THEN TRUE
  ELSE IF alt[k] = "ANY?"
       THEN \/ MatchHere(alt, k + 1, s, i)
            \/ /\ i <= Len(s)
               /\ s[i] # "\n"
               /\ MatchHere(alt, k + 1, s, i + 1)
       ELSE /\ i <= Len(s)
            /\ s[i] = alt[k]
            /\ MatchHere(alt, k + 1, s, i + 1)

\* re.compile(pattern, re.I): the literals are kept with their case folded
Compile(alternatives) ==
  {[k \in 1..Len(alt) |-> Lower(alt[k])] : alt \in alternatives}

\* pattern.search(s) is not None
Search(pattern, s) ==
  LET folded == [i \in 1..Len(s) |-> Lower(s[i])]
  IN  \E i \in 1..Len(s) : \E alt \in pattern : MatchHere(alt, 1, folded, i)

BLOCKED_REGION_PATTERN == Compile({
     <<"U+1F1E8","U+1F1F3">>, <<"U+1F1ED","U+1F1F0">>, <<"U+1F1F9","U+1F1FC">>,
     <<"U+1F1FB","U+1F1F3">>, <<"C","N">>, <<"H","K">>, <<"T","W">>, <<"V","N">>,
     <<"U+4E2D","U+56FD">>, <<"U+9999","U+6E2F">>, <<"U+53F0","U+6E7E">>,
     <<"U+8D8A","U+5357">>, <<"C","h","i","n","a">>,
     <<"H","o","n","g","ANY?","K","o","n","g">>, <<"T","a","i","w","a","n">>,
     <<"V","i","e","t","n","a","m">>, <<"U+56DE","U+56FD">> })

REGION_MAP == <<
  [pattern |-> Compile({
       <<"U+1F1EF","U+1F1F5">>, <<"J","P">>, <<"U+65E5","U+672C">>, <<"J","a","p","a","n">>,
       <<"U+4E1C","U+4EAC">>, <<"U+5927","U+962A">> }),
   label |-> <<"U+1F1EF","U+1F1F5"," ","U+65E5","U+672C">>],
  [pattern |-> Compile({
       <<"U+1F1FA","U+1F1F8">>, <<"U","S">>, <<"U+7F8E","U+56FD">>,
       <<"U","n","i","t","e","d","ANY?","S","t","a","t","e","s">>,
       <<"U+6D1B","U+6749","U+77F6">>, <<"U+7845","U+8C37">>, <<"U+7EBD","U+7EA6">>,
       <<"U+8FBE","U+62C9","U+65AF">>, <<"U+51E4","U+51F0","U+57CE">>,
       <<"U+897F","U+96C5","U+56FE">> }),
   label |-> <<"U+1F1FA","U+1F1F8"," ","U+7F8E","U+56FD">>],
  [pattern |-> Compile({
       <<"U+1F1F8","U+1F1EC">>, <<"S","G">>, <<"U+65B0","U+52A0","U+5761">>,
       <<"S","i","n","g","a","p","o","r","e">>, <<"U+72EE","U+57CE">> }),
   label |-> <<"U+1F1F8","U+1F1EC"," ","U+65B0","U+52A0","U+5761">>],
  [pattern |-> Compile({
       <<"U+1F1F0","U+1F1F7">>, <<"K","R">>, <<"U+97E9","U+56FD">>, <<"K","o","r","e","a">>,
       <<"U+9996","U+5C14">> }),
   label |-> <<"U+1F1F0","U+1F1F7"," ","U+97E9","U+56FD">>],
  [pattern |-> Compile({
       <<"U+1F1EC","U+1F1E7">>, <<"U","K">>, <<"G","B">>, <<"U+82F1","U+56FD">>,
       <<"U","n","i","t","e","d","ANY?","K","i","n","g","d","o","m">>, <<"U+4F26","U+6566">> }),
   label |-> <<"U+1F1EC","U+1F1E7"," ","U+82F1","U+56FD">>],
  [pattern |-> Compile({
       <<"U+1F1E9","U+1F1EA">>, <<"D","E">>, <<"U+5FB7","U+56FD">>,
       <<"G","e","r","m","a","n","y">>, <<"U+6CD5","U+5170","U+514B","U+798F">> }),
   label |-> <<"U+1F1E9","U+1F1EA"," ","U+5FB7","U+56FD">>],
  [pattern |-> Compile({
       <<"U+1F1EB","U+1F1F7">>, <<"F","R">>, <<"U+6CD5","U+56FD">>,
       <<"F","r","a","n","c","e">>, <<"U+5DF4","U+9ECE">> }),
   label |-> <<"U+1F1EB","U+1F1F7"," ","U+6CD5","U+56FD">>],
  [pattern |-> Compile({
       <<"U+1F1F7","U+1F1FA">>, <<"R","U">>, <<"U+4FC4","U+7F57","U+65AF">>,
       <<"R","u","s","s","i","a">>, <<"U+83AB","U+65AF","U+79D1">> }),
   label |-> <<"U+1F1F7","U+1F1FA"," ","U+4FC4","U+7F57","U+65AF">>],
  [pattern |-> Compile({
       <<"U+1F1E8","U+1F1E6">>, <<"C","A">>, <<"U+52A0","U+62FF","U+5927">>,
       <<"C","a","n","a","d","a">> }),
   label |-> <<"U+1F1E8","U+1F1E6"," ","U+52A0","U+62FF","U+5927">>],
  [pattern |-> Compile({
       <<"U+1F1E6","U+1F1FA">>, <<"A","U">>, <<"U+6FB3","U+5927","U+5229","U+4E9A">>,
       <<"A","u","s","t","r","a","l","i","a">>, <<"U+6089","U+5C3C">> }),
   label |-> <<"U+1F1E6","U+1F1FA"," ","U+6FB3","U+5927","U+5229","U+4E9A">>],
  [pattern |-> Compile({
       <<"U+1F1EE","U+1F1F3">>, <<"I","N">>, <<"U+5370","U+5EA6">>, <<"I","n","d","i","a">>,
       <<"U+5B5F","U+4E70">> }),
   label |-> <<"U+1F1EE","U+1F1F3"," ","U+5370","U+5EA6">>],
  [pattern |-> Compile({
       <<"U+1F1E7","U+1F1F7">>, <<"B","R">>, <<"U+5DF4","U+897F">>,
       <<"B","r","a","z","i","l">> }),
   label |-> <<"U+1F1E7","U+1F1F7"," ","U+5DF4","U+897F">>] >>

ALL_REGION_NAMES == [i \in 1..Len(REGION_MAP) |-> REGION_MAP[i].label]

(***************************************************************************)
(* Raw descriptors.  A port is an int, a non-numeric string, or absent.    *)
(***************************************************************************)
IntPort(n) == [kind |-> "int", val |-> n]

StrPort == [kind |-> "str", val |-> 0]

NoPort == [kind |-> "missing", val |-> 0]

\* A well-formed proxy dict
Node(name, server, port) ==
  [isDict |-> TRUE, hasName |-> TRUE, hasType |-> TRUE, hasServer |-> TRUE,
   name |-> name, server |-> server, port |-> port]

\* A dict without the "server" key
NoServerKey(name) ==
  [isDict |-> TRUE, hasName |-> TRUE, hasType |-> TRUE, hasServer |-> FALSE,
   name |-> name, server |-> <<>>, port |-> IntPort(443)]

\* A list entry that is not a dict
NotADict ==
  [isDict |-> FALSE, hasName |-> FALSE, hasType |-> FALSE, hasServer |-> FALSE,
   name |-> <<>>, server |-> <<>>, port |-> NoPort]

Host == <<"h">>

\* The descriptors the subscriptions deliver to main
RawPool == {
  Node(<<" ","J","P">>, Host, IntPort(443)),
  Node(<<"J","P","_","1">>, Host, IntPort(443)),
  Node(<<"A","u","s">>, Host, IntPort(443)),
  Node(<<"c","n","1">>, Host, IntPort(443)),
  Node(<<"B">>, Host, IntPort(70000)),
  NotADict }

\* The descriptors the synchronous stages are run on
StagePool == {
  Node(<<"A">>, Host, IntPort(443)),
  Node(<<"A","_","1">>, Host, IntPort(443)),
  Node(<<" ","J","P">>, Host, IntPort(443)),
  Node(<<"A","u","s">>, Host, IntPort(443)),
  Node(<<"c","n","1">>, Host, IntPort(443)),
  Node(<<"H","o","n","g"," ","K","o","n","g"," ">>, Host, IntPort(443)),
  Node(<<" ">>, Host, IntPort(443)),
  NoServerKey(<<"A">>),
  NotADict }

\* Sequences over S of length lo..hi
SeqsOf(S, lo, hi) == UNION {[1..n -> S] : n \in lo..hi}

NamesOf(heap, refs) == [i \in 1..Len(refs) |-> heap[refs[i]].name]

(***************************************************************************)
(* deduplicate_proxies                                                     *)
(***************************************************************************)
RECURSIVE DedupFrom(_,_,_,_)
DedupFrom(heap, i, seen_names, res) ==
  IF i > Len(heap) THEN [heap |-> heap, result |-> res]
  ELSE LET proxy == heap[i]
           name == Strip(proxy.name)
       IN  IF ~proxy.isDict THEN DedupFrom(heap, i + 1, seen_names, res)
           ELSE IF ~proxy.hasName \/ ~proxy.hasType \/ ~proxy.hasServer
           THEN DedupFrom(heap, i + 1, seen_names, res)
           ELSE IF name = <<>> THEN DedupFrom(heap, i + 1, seen_names, res)
           ELSE IF name \in DOMAIN seen_names
           THEN LET n == seen_names[name] + 1
                IN  DedupFrom([heap EXCEPT ![i].name = SuffixedName(name, n)],
                              i + 1, [seen_names EXCEPT ![name] = n],
                              Append(res, i))
           ELSE DedupFrom([heap EXCEPT ![i].name = name], i + 1,
                          (name :> 0) @@ seen_names, Append(res, i))

\* Returns the heap after the renames and the result list
deduplicate_proxies(heap) == DedupFrom(heap, 1, <<>>, <<>>)

(***************************************************************************)
(* filter_blocked_regions                                                  *)
(***************************************************************************)
Blocked(name) == Search(BLOCKED_REGION_PATTERN, name)

\* A filter with the test inverted
filter_keeping_blocked(heap, refs) ==
  SelectSeq(refs, LAMBDA r : Blocked(heap[r].name))

filter_blocked_regions(heap, refs) ==
  SelectSeq(refs, LAMBDA r : ~Blocked(heap[r].name))

(***************************************************************************)
(* test_single_proxy and the ranking of test_proxies_latency               *)
(***************************************************************************)
\* The latencies a connect may measure, in tenths of a millisecond
Latencies == {99, 104}

Connected(l) == [kind |-> "ok", latency |-> l]

Unreachable == [kind |-> "none", latency |-> 0]

Raised == [kind |-> "raise", latency |-> 0]

\* proxy.get("port", 0)
PortOf(proxy) == IF proxy.port.kind = "missing" THEN IntPort(0) ELSE proxy.port

\* The outcomes of test_single_proxy(proxy): (proxy, latency), (proxy, None),
\* or an exception that none of its handlers catches (sock.connect raises
\* OverflowError for a port outside 0..65535)
test_single_proxy(proxy) ==
  LET port == PortOf(proxy)
  IN  IF proxy.server = <<>> \/ (port.kind = "int" /\ port.val = 0)
      THEN {Unreachable}
      ELSE IF port.kind = "str" THEN {Unreachable}
      ELSE IF port.val < 0 \/ port.val > 65535 THEN {Raised}
      ELSE {Connected(l) : l \in Latencies} \cup {Unreachable}

\* One outcome for each proxy of refs
ProbeOutcomes(heap, refs) ==
  {res \in [1..Len(refs) -> {Unreachable, Raised} \cup {Connected(l) : l \in Latencies}] :
     \A i \in 1..Len(refs) : res[i] \in test_single_proxy(heap[refs[i]])}

\* A sort that is not stable: an element goes before the elements of equal key
InsertBeforeEqual(sorted, x) ==
  LET k == Cardinality({i \in 1..Len(sorted) : sorted[i].latency < x.latency})
  IN  SubSeq(sorted, 1, k) \o <<x>> \o SubSeq(sorted, k + 1, Len(sorted))

\* list.sort(key=latency) is stable: an element goes behind every element
\* whose key is not larger
InsertByLatency(sorted, x) ==
  LET k == Cardinality({i \in 1..Len(sorted) : sorted[i].latency <= x.latency})
  IN  SubSeq(sorted, 1, k) \o <<x>> \o SubSeq(sorted, k + 1, Len(sorted))

RECURSIVE SortByLatency(_)
SortByLatency(pairs) ==
  IF pairs = <<>> THEN <<>>
  ELSE InsertByLatency(SortByLatency(SubSeq(pairs, 1, Len(pairs) - 1)),
                       pairs[Len(pairs)])

\* proxy["name"] = f"[{int(latency)}ms] {proxy['name']}"
RenameOne(heap, pair) ==
  [heap EXCEPT ![pair.proxy].name = LatencyName(pair.latency, @)]

RECURSIVE RenameFrom(_,_,_)
RenameFrom(heap, alive, k) ==
  IF k > Len(alive) THEN heap
  ELSE RenameFrom(RenameOne(heap, alive[k]), alive, k + 1)

\* The futures that returned a latency
AliveSet(res) == {i \in 1..Len(res) : res[i].kind = "ok"}

\* The orders in which as_completed may yield the futures of S
Orders(S) ==
  {f \in [1..Cardinality(S) -> S] :
     \A i, j \in 1..Cardinality(S) : f[i] = f[j] => i = j}

\* alive_proxies when the futures that returned a latency were yielded in
\* this order
AlivePairs(refs, res, order) ==
  [k \in 1..Len(order) |->
     [proxy |-> refs[order[k]], latency |-> res[order[k]].latency]]

(***************************************************************************)
(* classify_by_region: an OrderedDict is the sequence of its items         *)
(***************************************************************************)
\* A scan without the break: the last matching pattern wins
LastMatchFrom(name, k) ==
  LET M == {m \in k..Len(REGION_MAP) : Search(REGION_MAP[m].pattern, name)}
  IN  IF M = {} THEN 0 ELSE CHOOSE m \in M : \A n \in M : n <= m

\* The index of the first pattern of REGION_MAP matching name, 0 if none
RECURSIVE FirstMatchFrom(_,_)
FirstMatchFrom(name, k) ==
  IF k > Len(REGION_MAP) THEN 0
  ELSE IF Search(REGION_MAP[k].pattern, name) THEN k
  ELSE FirstMatchFrom(name, k + 1)

\* A mapping that keeps its keys in REGION_MAP order
SetDefaultSorted(groups, region_name, name) ==
  LET idx(l) == CHOOSE k \in 1..Len(REGION_MAP) : REGION_MAP[k].label = l
      n == Cardinality({k \in 1..Len(groups) : idx(groups[k].label) < idx(region_name)})
  IN  IF \E k \in 1..Len(groups) : groups[k].label = region_name
      THEN [k \in 1..Len(groups) |->
              IF groups[k].label = region_name
              THEN [groups[k] EXCEPT !.names = Append(@, name)]
              ELSE groups[k]]
      ELSE SubSeq(groups, 1, n) \o <<[label |-> region_name, names |-> <<name>>]>>
           \o SubSeq(groups, n + 1, Len(groups))

\* region_groups.setdefault(region_name, []).append(name)
SetDefaultAppend(groups, region_name, name) ==
  IF \E k \in 1..Len(groups) : groups[k].label = region_name
  THEN [k \in 1..Len(groups) |->
          IF groups[k].label = region_name
          THEN [groups[k] EXCEPT !.names = Append(@, name)]
          ELSE groups[k]]
  ELSE Append(groups, [label |-> region_name, names |-> <<name>>])

RECURSIVE ClassifyFrom(_,_,_,_)
ClassifyFrom(heap, refs, i, groups) ==
  IF i > Len(refs) THEN groups
  ELSE LET name == heap[refs[i]].name
           m == FirstMatchFrom(name, 1)
       IN  IF m = 0 THEN ClassifyFrom(heap, refs, i + 1, groups)
           ELSE ClassifyFrom(heap, refs, i + 1,
                             SetDefaultAppend(groups, REGION_MAP[m].label, name))

classify_by_region(heap, refs) == ClassifyFrom(heap, refs, 1, <<>>)

Keys(groups) == {groups[k].label : k \in 1..Len(groups)}

Get(groups, label) ==
  groups[CHOOSE k \in 1..Len(groups) : groups[k].label = label].names

(***************************************************************************)
(* build_config.  The static settings and the rule list are left out: they *)
(* do not depend on the nodes.                                             *)
(***************************************************************************)
DIRECT == <<"D","I","R","E","C","T">>

REJECT == <<"R","E","J","E","C","T">>

GroupSelectProxy == <<"U+1F680"," ","U+9009","U+62E9","U+4EE3","U+7406">>

GroupAutoSelect == <<"U+267B"," ","U+81EA","U+52A8","U+9009","U+62E9">>

GroupLowestLatency == <<"U+1F530"," ","U+5EF6","U+8FDF","U+6700","U+4F4E">>

GroupManualSelect == <<"U+2705"," ","U+624B","U+52A8","U+9009","U+62E9">>

GroupSelectRegion == <<"U+1F5FA","U+FE0F"," ","U+9009","U+62E9","U+5730","U+533A">>

GroupUnlock == <<"U+1F310"," ","U+7A81","U+7834","U+9501","U+533A">>

GroupDomestic == <<"U+2753"," ","U+7591","U+4F3C","U+56FD","U+5185">>

GroupFinal == <<"U+1F41F"," ","U+6F0F","U+7F51","U+4E4B","U+9C7C">>

GroupMalware == <<"U+1F6A8"," ","U+75C5","U+6BD2","U+7F51","U+7AD9">>

GroupAdBlock == <<"U+26D4"," ","U+5E7F","U+544A","U+62E6","U+622A">>

Group(name, type, members) == [name |-> name, type |-> type, proxies |-> members]

\* Groups 1 to 10 of proxy_groups
FixedGroups(all_names, groups) ==
  LET active_region_names ==
        SelectSeq(ALL_REGION_NAMES, LAMBDA r : r \in Keys(groups))
  IN << Group(GroupSelectProxy, "select",
              <<GroupAutoSelect, GroupLowestLatency, GroupManualSelect,
                GroupSelectRegion>>),
        Group(GroupAutoSelect, "fallback", all_names),
        Group(GroupLowestLatency, "url-test", all_names),
        Group(GroupManualSelect, "select", all_names),
        Group(GroupUnlock, "select", <<DIRECT, GroupSelectProxy>>),
        Group(GroupDomestic, "select", <<DIRECT, GroupSelectProxy, REJECT>>),
        Group(GroupFinal, "select", <<DIRECT, GroupSelectProxy>>),
        Group(GroupMalware, "select", <<REJECT, DIRECT>>),
        Group(GroupAdBlock, "select", <<REJECT, DIRECT, GroupSelectProxy>>),
        Group(GroupSelectRegion, "select",
              IF active_region_names # <<>> THEN active_region_names
              ELSE <<REJECT>>) >>

\* A loop that emits a group only for the regions that have nodes
PopulatedSubGroups(groups) ==
  LET active == SelectSeq(ALL_REGION_NAMES, LAMBDA r : r \in Keys(groups))
  IN  [k \in 1..Len(active) |-> Group(active[k], "select", Get(groups, active[k]))]

\* Group 11 and on: one group per region name
RegionSubGroups(groups) ==
  [k \in 1..Len(ALL_REGION_NAMES) |->
     IF ALL_REGION_NAMES[k] \in Keys(groups)
     THEN Group(ALL_REGION_NAMES[k], "select", Get(groups, ALL_REGION_NAMES[k]))
     ELSE Group(ALL_REGION_NAMES[k], "select", <<REJECT>>)]

\* A build_config that takes the node names from the list captured when
\* test_proxies_latency was entered
build_config_stale(heap, refs) ==
  LET all_names == entry_names
      groups == classify_by_region(heap, refs)
  IN  [proxies |-> refs,
       proxy_groups |-> FixedGroups(all_names, groups) \o RegionSubGroups(groups)]

build_config(heap, refs) ==
  LET all_names == NamesOf(heap, refs)
      groups == classify_by_region(heap, refs)
  IN  [proxies |-> refs,
       proxy_groups |-> FixedGroups(all_names, groups) \o RegionSubGroups(groups)]

NoConfig == [proxies |-> <<>>, proxy_groups |-> <<>>]

\* yaml.dump(config_data): the proxies are dumped as they are at that moment
write_output(heap, config_data) ==
  [proxies |-> NamesOf(heap, config_data.proxies),
   proxy_groups |-> config_data.proxy_groups]

(***************************************************************************)
(* main, from the point where all_proxies has been collected.              *)
(***************************************************************************)
Called(fn, res) == Append(calls, [fn |-> fn, n |-> Len(res)])

\* A main that goes on with an empty list
GoOnIfEmpty(res, next) == next

\* `if not proxies: log.error(...); sys.exit(1)`
ExitIfEmpty(res, next) == IF res = <<>> THEN "exit" ELSE next

Init ==
  /\ pc = "fetched"
  /\ all_proxies \in SeqsOf(RawPool, 0, MaxRaw)
  /\ proxies = <<>>
  /\ arg = <<>>
  /\ entry_names = <<>>
  /\ calls = <<>>
  /\ config = NoConfig
  /\ output = NoConfig
  /\ region_groups = <<>>
  /\ futures = <<>>
  /\ completed = <<>>
  /\ alive_proxies = <<>>
  /\ timeout_count = 0
  /\ tested = 0
  /\ result = <<>>

\* `if not all_proxies: sys.exit(1)` and step 3
Deduplicate ==
  /\ pc = "fetched"
  /\ IF ExitIfEmpty(all_proxies, "go on") = "exit"
     THEN /\ pc' = "exit"
          /\ UNCHANGED <<all_proxies, proxies, arg, calls>>
     ELSE LET d == deduplicate_proxies(all_proxies)
          IN  /\ all_proxies' = d.heap
              /\ proxies' = d.result
              /\ arg' = [i \in 1..Len(all_proxies) |-> i]
              /\ calls' = Called("deduplicate_proxies", d.result)
              /\ pc' = "deduped"
  /\ UNCHANGED <<entry_names, config, output, region_groups>>
  /\ UNCHANGED proberVars

\* step 4
FilterBlocked ==
  /\ pc = "deduped"
  /\ LET r == filter_blocked_regions(all_proxies, proxies)
     IN  /\ proxies' = r
         /\ arg' = proxies
         /\ calls' = Called("filter_blocked_regions", r)
         /\ pc' = ExitIfEmpty(r, "filtered")
  /\ UNCHANGED <<all_proxies, entry_names, config, output, region_groups>>
  /\ UNCHANGED proberVars

\* step 5, test_proxies_latency as one step: every probe gets an outcome and
\* the futures are yielded in some order (of which only the order of those
\* that returned a latency shows in alive_proxies)
TestLatency ==
  /\ pc = "filtered"
  /\ \E res \in ProbeOutcomes(all_proxies, proxies) :
     \E order \in Orders(AliveSet(res)) :
       /\ IF \E i \in 1..Len(proxies) : res[i] = Raised
          THEN /\ pc' = "crashed"
               /\ UNCHANGED <<all_proxies, proxies, arg, entry_names, calls>>
          ELSE LET alive == SortByLatency(AlivePairs(proxies, res, order))
                   r == [k \in 1..Len(alive) |-> alive[k].proxy]
               IN  /\ all_proxies' = RenameFrom(all_proxies, alive, 1)
                   /\ proxies' = r
                   /\ arg' = proxies
                   /\ entry_names' = NamesOf(all_proxies, proxies)
                   /\ calls' = Called("test_proxies_latency", r)
                   /\ pc' = ExitIfEmpty(r, "ranked")
  /\ UNCHANGED <<config, output, region_groups>>
  /\ UNCHANGED proberVars

\* step 6
BuildConfig ==
  /\ pc = "ranked"
  /\ config' = build_config(all_proxies, proxies)
  /\ calls' = Called("build_config", proxies)
  /\ pc' = "built"
  /\ UNCHANGED <<all_proxies, proxies, arg, entry_names, output, region_groups>>
  /\ UNCHANGED proberVars

\* step 7
WriteOutput ==
  /\ pc = "built"
  /\ output' = write_output(all_proxies, config)
  /\ calls' = Called("write_output", config.proxies)
  /\ pc' = "written"
  /\ UNCHANGED <<all_proxies, proxies, arg, entry_names, config, region_groups>>
  /\ UNCHANGED proberVars

\* step 8
RegionStats ==
  /\ pc = "written"
  /\ region_groups' = classify_by_region(all_proxies, proxies)
  /\ pc' = "done"
  /\ UNCHANGED <<all_proxies, proxies, arg, entry_names, calls, config, output>>
  /\ UNCHANGED proberVars

Next ==
  \/ Deduplicate
  \/ FilterBlocked
  \/ TestLatency
  \/ BuildConfig
  \/ WriteOutput
  \/ RegionStats

Spec == Init /\ [][Next]_vars

(***************************************************************************)
(* The synchronous stages run one after the other on a raw list, without   *)
(* the prober: deduplicate_proxies, filter_blocked_regions, build_config,  *)
(* classify_by_region.                                                     *)
(***************************************************************************)
InitStages ==
  /\ pc = "raw"
  /\ all_proxies \in SeqsOf(StagePool, 0, MaxList)
  /\ proxies = <<>>
  /\ arg = <<>>
  /\ entry_names = <<>>
  /\ calls = <<>>
  /\ config = NoConfig
  /\ output = NoConfig
  /\ region_groups = <<>>
  /\ futures = <<>>
  /\ completed = <<>>
  /\ alive_proxies = <<>>
  /\ timeout_count = 0
  /\ tested = 0
  /\ result = <<>>

StageDeduplicate ==
  /\ pc = "raw"
  /\ LET d == deduplicate_proxies(all_proxies)
     IN  /\ all_proxies' = d.heap
         /\ proxies' = d.result
         /\ arg' = [i \in 1..Len(all_proxies) |-> i]
         /\ entry_names' = [i \in 1..Len(all_proxies) |-> all_proxies[i].name]
         /\ calls' = Called("deduplicate_proxies", d.result)
  /\ pc' = "deduped"
  /\ UNCHANGED <<config, output, region_groups>>
  /\ UNCHANGED proberVars

StageFilter ==
  /\ pc = "deduped"
  /\ LET r == filter_blocked_regions(all_proxies, proxies)
     IN  /\ proxies' = r
         /\ arg' = proxies
         /\ calls' = Called("filter_blocked_regions", r)
  /\ pc' = "filtered"
  /\ UNCHANGED <<all_proxies, entry_names, config, output, region_groups>>
  /\ UNCHANGED proberVars

StageBuildConfig ==
  /\ pc = "filtered"
  /\ config' = build_config(all_proxies, proxies)
  /\ calls' = Called("build_config", proxies)
  /\ pc' = "built"
  /\ UNCHANGED <<all_proxies, proxies, arg, entry_names, output, region_groups>>
  /\ UNCHANGED proberVars

StageClassify ==
  /\ pc = "built"
  /\ region_groups' = classify_by_region(all_proxies, proxies)
  /\ pc' = "classified"
  /\ UNCHANGED <<all_proxies, proxies, arg, entry_names, calls, config, output>>
  /\ UNCHANGED proberVars

NextStages ==
  \/ StageDeduplicate
  \/ StageFilter
  \/ StageBuildConfig
  \/ StageClassify

SpecStages == InitStages /\ [][NextStages]_vars

(***************************************************************************)
(* test_proxies_latency step by step: a ThreadPoolExecutor runs one        *)
(* test_single_proxy task per proxy, as_completed yields the futures that  *)
(* are done, then the list is sorted and the names are rewritten.          *)
(***************************************************************************)
LATENCY_MAX_WORKERS == 50

\* (server, port) of the proxies the prober is run on
EndpointPool == {
  [server |-> Host, port |-> IntPort(443)],
  [server |-> Host, port |-> IntPort(0)],
  [server |-> Host, port |-> NoPort],
  [server |-> Host, port |-> StrPort],
  [server |-> Host, port |-> IntPort(70000)],
  [server |-> <<>>, port |-> IntPort(443)] }

\* The i-th proxy is named n<i>
ProbeName(i) == <<"n">> \o Digits(i)

InitProbe ==
  /\ pc = "probe_entry"
  /\ \E eps \in SeqsOf(EndpointPool, 1, MaxProbe) :
       all_proxies = [i \in 1..Len(eps) |-> Node(ProbeName(i), eps[i].server, eps[i].port)]
  /\ proxies = [i \in 1..Len(all_proxies) |-> i]
  /\ arg = <<>>
  /\ entry_names = NamesOf(all_proxies, proxies)
  /\ calls = <<>>
  /\ config = NoConfig
  /\ output = NoConfig
  /\ region_groups = <<>>
  /\ futures = <<>>
  /\ completed = <<>>
  /\ alive_proxies = <<>>
  /\ timeout_count = 0
  /\ tested = 0
  /\ result = <<>>

Running == {i \in 1..Len(futures) : futures[i].state = "running"}

Pending == {i \in 1..Len(futures) : futures[i].state = "pending"}

\* Every task has resolved
AllDone == \A i \in 1..Len(futures) : futures[i].state = "done"

\* A loop that is left at the first future that is done
SomeYielded == Len(completed) >= 1

\* as_completed has yielded every future: the for loop is over
AllYielded == Len(completed) = Len(futures)

\* executor.submit(test_single_proxy, p) for p in proxies
Submit ==
  /\ pc = "probe_entry"
  /\ futures' = [i \in 1..Len(proxies) |->
                   [proxy |-> proxies[i], state |-> "pending", runs |-> 0,
                    outcome |-> Unreachable]]
  /\ pc' = "probe_wait"
  /\ UNCHANGED <<all_proxies, proxies, entry_names, completed, alive_proxies,
                 timeout_count, tested, result>>
  /\ UNCHANGED mainVars

\* A free worker takes the oldest queued task
StartProbe(i) ==
  /\ pc \in {"probe_wait", "probe_unwind"}
  /\ i \in Pending
  /\ \A j \in Pending : i <= j
  /\ Cardinality(Running) < LATENCY_MAX_WORKERS
  /\ futures' = [futures EXCEPT ![i].state = "running", ![i].runs = @ + 1]
  /\ UNCHANGED <<pc, all_proxies, proxies, entry_names, completed, alive_proxies,
                 timeout_count, tested, result>>
  /\ UNCHANGED mainVars

\* test_single_proxy returns or raises
FinishProbe(i) ==
  /\ pc \in {"probe_wait", "probe_unwind"}
  /\ i \in Running
  /\ \E o \in test_single_proxy(all_proxies[futures[i].proxy]) :
       futures' = [futures EXCEPT ![i].state = "done", ![i].outcome = o]
  /\ UNCHANGED <<pc, all_proxies, proxies, entry_names, completed, alive_proxies,
                 timeout_count, tested, result>>
  /\ UNCHANGED mainVars

\* One turn of `for future in as_completed(future_to_proxy)`; future.result()
\* raises what the task raised
Yield(i) ==
  /\ pc = "probe_wait"
  /\ i \in 1..Len(futures)
  /\ futures[i].state = "done"
  /\ \A k \in 1..Len(completed) : completed[k] # i
  /\ completed' = Append(completed, i)
  /\ tested' = tested + 1
  /\ IF futures[i].outcome.kind = "raise"
     THEN /\ pc' = "probe_unwind"
          /\ UNCHANGED <<alive_proxies, timeout_count>>
     ELSE IF futures[i].outcome.kind = "ok"
     THEN /\ alive_proxies' = Append(alive_proxies,
                                [proxy |-> futures[i].proxy,
                                 latency |-> futures[i].outcome.latency])
          /\ UNCHANGED <<pc, timeout_count>>
     ELSE /\ timeout_count' = timeout_count + 1
          /\ UNCHANGED <<pc, alive_proxies>>
  /\ UNCHANGED <<all_proxies, proxies, entry_names, futures, result>>
  /\ UNCHANGED mainVars

\* The with block is left and alive_proxies.sort(key=lambda x: x[1]) runs
Sort ==
  /\ pc = "probe_wait"
  /\ AllYielded
  /\ alive_proxies' = SortByLatency(alive_proxies)
  /\ pc' = "probe_rename"
  /\ UNCHANGED <<all_proxies, proxies, entry_names, futures, completed,
                 timeout_count, tested, result>>
  /\ UNCHANGED mainVars

\* One turn of `for proxy, latency in alive_proxies`
RenameStep ==
  /\ pc = "probe_rename"
  /\ Len(result) < Len(alive_proxies)
  /\ LET pair == alive_proxies[Len(result) + 1]
     IN  /\ all_proxies' = RenameOne(all_proxies, pair)
         /\ result' = Append(result, pair.proxy)
  /\ UNCHANGED <<pc, proxies, entry_names, futures, completed, alive_proxies,
                 timeout_count, tested>>
  /\ UNCHANGED mainVars

\* return result
Return ==
  /\ pc = "probe_rename"
  /\ Len(result) = Len(alive_proxies)
  /\ pc' = "probe_returned"
  /\ UNCHANGED <<all_proxies, proxies, entry_names>>
  /\ UNCHANGED proberVars
  /\ UNCHANGED mainVars

\* The exception leaves the with block once executor.shutdown(wait=True) has
\* seen every task end, and then leaves test_proxies_latency
Unwind ==
  /\ pc = "probe_unwind"
  /\ AllDone
  /\ pc' = "probe_raised"
  /\ UNCHANGED <<all_proxies, proxies, entry_names>>
  /\ UNCHANGED proberVars
  /\ UNCHANGED mainVars

NextProbe ==
  \/ Submit
  \/ \E i \in 1..Len(futures) : StartProbe(i)
  \/ \E i \in 1..Len(futures) : FinishProbe(i)
  \/ \E i \in 1..Len(futures) : Yield(i)
  \/ Sort
  \/ RenameStep
  \/ Return
  \/ Unwind

SpecProbe == InitProbe /\ [][NextProbe]_vars

\* The scheduling the prober runs under: a free worker of the pool takes the
\* oldest queued task, a running test_single_proxy comes back (the connect is
\* bounded by sock.settimeout), and the thread of test_proxies_latency takes
\* its next step whenever it can.
SpecProbeFair ==
  /\ SpecProbe
  /\ \A i \in 1..MaxProbe : WF_vars(StartProbe(i)) /\ WF_vars(FinishProbe(i))
  /\ WF_vars(Submit)
  /\ WF_vars(\E i \in 1..Len(futures) : Yield(i))
  /\ WF_vars(Sort)
  /\ WF_vars(RenameStep)
  /\ WF_vars(Return)
  /\ WF_vars(Unwind)

(***************************************************************************)
(* Properties.                                                             *)
(***************************************************************************)
Range(seq) == {seq[i] : i \in 1..Len(seq)}

NoRepeat(seq) == \A i, j \in 1..Len(seq) : seq[i] = seq[j] => i = j

\* The position of x in a sequence without repeats
PosIn(seq, x) == CHOOSE i \in 1..Len(seq) : seq[i] = x

\* sub is seq with some elements left out (seq has no repeats)
KeepsOrderOf(sub, seq) ==
  /\ NoRepeat(sub)
  /\ Range(sub) \subseteq Range(seq)
  /\ \A a, b \in 1..Len(sub) : a < b => PosIn(seq, sub[a]) < PosIn(seq, sub[b])

\* C1: the list deduplicate_proxies returns has no two nodes with the same
\* name, whatever the input (names A, A_1, A included).
C1_DedupNamesUnique ==
  pc = "deduped" => NoRepeat(NamesOf(all_proxies, proxies))

\* Some boundary of main (after deduplication, filtering or probing) saw an
\* empty list
EmptyBoundary ==
  \E k \in 1..Len(calls) :
    /\ calls[k].fn \in {"deduplicate_proxies", "filter_blocked_regions",
                        "test_proxies_latency"}
    /\ calls[k].n = 0

\* C3: once the list is empty after deduplication, filtering or probing,
\* main neither builds nor writes a configuration and the only way on is the
\* fatal exit; build_config and write_output only ever get a non-empty list.
C3_EmptyIsFatal ==
  /\ EmptyBoundary =>
       /\ pc \in {"deduped", "exit"}
       /\ pc = "deduped" => ENABLED FilterBlocked /\ filter_blocked_regions(all_proxies, proxies) = <<>>
       /\ \A k \in 1..Len(calls) : calls[k].fn \notin {"build_config", "write_output"}
       /\ config = NoConfig /\ output = NoConfig
  /\ \A k \in 1..Len(calls) :
       calls[k].fn \in {"build_config", "write_output"} => calls[k].n > 0
  /\ pc \in {"ranked", "built", "written", "done"} => proxies # <<>>

\* C3's case: deduplication left nothing (main has no check of its own
\* there) and the run ended in the fatal exit
C3_Witness ==
  /\ pc = "exit"
  /\ Len(calls) = 2
  /\ calls[1] = [fn |-> "deduplicate_proxies", n |-> 0]
  /\ all_proxies # <<>>

\* C4: the configuration main hands to write_output has no two proxies with
\* the same name.
C4_ConfigNamesUnique ==
  pc = "built" => NoRepeat(NamesOf(all_proxies, config.proxies))

\* C5: filter_blocked_regions returns exactly the nodes of its input whose
\* name does not match the blocked pattern, in their input order.
C5_FilterExact ==
  pc = "filtered" =>
    /\ KeepsOrderOf(proxies, arg)
    /\ \A r \in Range(arg) :
         r \in Range(proxies) <=> ~Search(BLOCKED_REGION_PATTERN, all_proxies[r].name)

\* C5's case: the filter removed a node and kept at least two
C5_Witness ==
  /\ pc = "filtered"
  /\ Len(proxies) >= 2
  /\ Len(proxies) < Len(arg)

\* The patterns of REGION_MAP that match name
Matching(name) ==
  {k \in 1..Len(REGION_MAP) : Search(REGION_MAP[k].pattern, name)}

Min(S) == CHOOSE m \in S : \A n \in S : m <= n

\* The groups of region_groups that list name
GroupsOf(name) ==
  {g \in 1..Len(region_groups) : name \in Range(region_groups[g].names)}

\* C6: classify_by_region lists a node's name in at most one group, the one
\* of the first pattern in REGION_MAP order that matches it, and in none when
\* no pattern matches.
C6_FirstMatchWins ==
  pc = "classified" =>
    \A i \in 1..Len(proxies) :
      LET name == all_proxies[proxies[i]].name
      IN  /\ Cardinality(GroupsOf(name)) <= 1
          /\ Matching(name) = {} => GroupsOf(name) = {}
          /\ Matching(name) # {} =>
               \E g \in GroupsOf(name) :
                 region_groups[g].label = REGION_MAP[Min(Matching(name))].label

\* C6's case: a name that two patterns match and a name that none matches
C6_Witness ==
  /\ pc = "classified"
  /\ \E i \in 1..Len(proxies) :
       Cardinality(Matching(all_proxies[proxies[i]].name)) >= 2
  /\ \E i \in 1..Len(proxies) : Matching(all_proxies[proxies[i]].name) = {}

\* The position of a label in the catalog
CatalogIndex(label) == CHOOSE k \in 1..Len(REGION_MAP) : REGION_MAP[k].label = label

\* The first position of the input whose node belongs to the label
FirstNodeOf(label) ==
  Min({i \in 1..Len(proxies) :
         /\ Matching(all_proxies[proxies[i]].name) # {}
         /\ REGION_MAP[Min(Matching(all_proxies[proxies[i]].name))].label = label})

OnlyPopulatedLabels ==
  /\ \A g \in 1..Len(region_groups) : region_groups[g].names # <<>>
  /\ \A g, h \in 1..Len(region_groups) :
       region_groups[g].label = region_groups[h].label => g = h

\* C7 as claimed: the mapping holds only labels with members and its labels
\* iterate in REGION_MAP order, whatever the order of the nodes.
C7_CatalogOrder ==
  pc = "classified" =>
    /\ OnlyPopulatedLabels
    /\ \A g, h \in 1..Len(region_groups) :
         g < h => CatalogIndex(region_groups[g].label) < CatalogIndex(region_groups[h].label)

\* C7 amended: the mapping holds only labels with members and its labels
\* iterate in the order in which their first node occurs in the input.
C7_FirstSeenOrder ==
  pc = "classified" =>
    /\ OnlyPopulatedLabels
    /\ \A g, h \in 1..Len(region_groups) :
         g < h => FirstNodeOf(region_groups[g].label) < FirstNodeOf(region_groups[h].label)

\* C7's case: two labels whose first nodes come in the reverse of the
\* catalog order
C7_Witness ==
  /\ pc = "classified"
  /\ \E g, h \in 1..Len(region_groups) :
       /\ g < h
       /\ CatalogIndex(region_groups[g].label) > CatalogIndex(region_groups[h].label)

FixedGroupNames ==
  <<GroupSelectProxy, GroupAutoSelect, GroupLowestLatency, GroupManualSelect,
    GroupUnlock, GroupDomestic, GroupFinal, GroupMalware, GroupAdBlock,
    GroupSelectRegion>>

\* C8: build_config emits one group per catalog label, in catalog order and
\* at fixed positions; a label with members lists the classifier's names for
\* it, a label without lists REJECT alone; the names and order of all groups
\* are the same for every input.
C8_StableGroups ==
  pc = "classified" =>
    /\ [g \in 1..Len(config.proxy_groups) |-> config.proxy_groups[g].name]
         = FixedGroupNames \o ALL_REGION_NAMES
    /\ \A k \in 1..Len(ALL_REGION_NAMES) :
         LET group == config.proxy_groups[Len(FixedGroupNames) + k]
             mine == {g \in 1..Len(region_groups) :
                        region_groups[g].label = ALL_REGION_NAMES[k]}
         IN  /\ mine # {} => \A g \in mine : group.proxies = region_groups[g].names
             /\ mine = {} => group.proxies = <<REJECT>>

\* C8's case: a populated region next to unpopulated ones
C8_Witness ==
  /\ pc = "classified"
  /\ Len(region_groups) >= 1
  /\ \E g \in 1..Len(config.proxy_groups) : config.proxy_groups[g].proxies = <<REJECT>>
  /\ \E g \in 1..Len(region_groups) : Len(region_groups[g].names) >= 2

\* The latency the probe of proxy r measured
Measured(r) ==
  futures[CHOOSE i \in 1..Len(futures) : futures[i].proxy = r].outcome.latency

\* The prober has returned its result
Returned == pc = "probe_returned"

AscendingLatency ==
  \A a, b \in 1..Len(result) : a < b => Measured(result[a]) <= Measured(result[b])

\* C2 as claimed: the survivors are returned in ascending order of latency,
\* and survivors of equal latency in their input order, whatever order the
\* probes complete in.
C2_TiesInInputOrder ==
  Returned =>
    /\ AscendingLatency
    /\ \A a, b \in 1..Len(result) :
         (a < b /\ Measured(result[a]) = Measured(result[b]))
           => PosIn(proxies, result[a]) < PosIn(proxies, result[b])

\* C2 amended: the survivors are returned in ascending order of latency, and
\* survivors of equal latency in the order in which as_completed yielded
\* their futures.
C2_TiesInCompletionOrder ==
  Returned =>
    /\ AscendingLatency
    /\ \A a, b \in 1..Len(result) :
         (a < b /\ Measured(result[a]) = Measured(result[b]))
           => PosIn(completed, PosIn(proxies, result[a]))
                < PosIn(completed, PosIn(proxies, result[b]))

\* C2's case: two survivors of equal latency whose futures were yielded in
\* the reverse of the input order, and a third of another latency
C2_Witness ==
  /\ Returned
  /\ \E a, b \in 1..Len(result) :
       /\ a < b
       /\ Measured(result[a]) = Measured(result[b])
       /\ PosIn(proxies, result[a]) > PosIn(proxies, result[b])
  /\ \E a, b \in 1..Len(result) : Measured(result[a]) < Measured(result[b])

\* The nodes whose probe connected
Connecting == {i \in 1..Len(futures) : futures[i].state = "done" /\ futures[i].outcome.kind = "ok"}

\* test_proxies_latency is over: it returned or an exception left it
ProbeOver == pc \in {"probe_returned", "probe_raised"}

\* C9: every node is probed exactly once, the result holds exactly the nodes
\* whose probe connected, a failing probe takes nothing from its siblings,
\* and the result has the length of the input less the failed probes.
C9_OnlyFailedDropped ==
  ProbeOver =>
    /\ Returned
    /\ \A i \in 1..Len(futures) : futures[i].runs = 1 /\ futures[i].state = "done"
    /\ Range(result) = {futures[i].proxy : i \in Connecting}
    /\ Len(result) = Len(proxies) - Cardinality((1..Len(futures)) \ Connecting)

\* The nodes whose name is no longer the one they entered with
Renamed ==
  {i \in 1..Len(proxies) : all_proxies[proxies[i]].name # entry_names[i]}

\* The sort has run
Ranked == pc \in {"probe_rename", "probe_returned"}

\* C10: the sort starts only when every probe task has resolved, a name is
\* rewritten only after the sort and only for a node whose probe connected;
\* while a probe is pending no name is rewritten, and the name of a dropped
\* node never is.
C10_RankAfterAllRenameAfterRank ==
  /\ Ranked => AllDone /\ Len(completed) = Len(futures)
  /\ Ranked => alive_proxies = SortByLatency(alive_proxies)
  /\ Renamed # {} => Ranked
  /\ \A i \in Renamed : i \in Connecting
  /\ ~AllDone => Renamed = {}
  /\ \A i \in 1..Len(futures) :
       (futures[i].state = "done" /\ futures[i].outcome.kind # "ok") => i \notin Renamed

\* C10's case: the prober returned with a node renamed and a node dropped
C10_Witness ==
  /\ Returned
  /\ Renamed # {}
  /\ \E i \in 1..Len(futures) : futures[i].outcome.kind = "none"
  /\ Len(result) >= 2

\* Every proxy of the input has exactly one probe task, and the tasks are the
\* proxies in input order
OneTaskPerNode ==
  pc # "probe_entry" =>
    /\ Len(futures) = Len(proxies)
    /\ \A i \in 1..Len(futures) : futures[i].proxy = proxies[i]
    /\ \A i \in 1..Len(futures) : futures[i].runs <= 1

\* No more tasks are running than the pool has workers
WithinWorkerLimit == Cardinality(Running) <= LATENCY_MAX_WORKERS

\* A task is queued only while an older task is queued or every worker is
\* busy, and a task that starts finds a worker free
WaitsForFreeWorker ==
  \A i \in 1..Len(futures) :
    /\ (futures[i].state = "pending" /\ futures'[i].state = "running")
         => Cardinality(Running) < LATENCY_MAX_WORKERS
    /\ futures[i].state = "running" => futures'[i].state \in {"running", "done"}
    /\ futures[i].state = "done" => futures'[i] = futures[i]

\* Every task has been created and has resolved
AllResolved == pc # "probe_entry" /\ AllDone

\* C11: exactly one probe task is created per input node, at every moment
\* at most LATENCY_MAX_WORKERS tasks are running, a task starts only when a
\* worker is free, and every task eventually resolves so that
\* test_proxies_latency returns.
C11_BoundedPoolReturns ==
  /\ [](OneTaskPerNode /\ WithinWorkerLimit)
  /\ [][pc # "probe_entry" => WaitsForFreeWorker]_vars
  /\ <>AllResolved
  /\ <>Returned

\* build_config has returned
ConfigBuilt == pc \in {"built", "written", "done"}

\* The fallback, url-test and manual select groups
FullNodeGroups == {GroupAutoSelect, GroupLowestLatency, GroupManualSelect}

\* The current names of the nodes of the config's proxies list, in its order
NodeNames == NamesOf(all_proxies, config.proxies)

\* The name node r had when test_proxies_latency was entered
EntryNameOf(r) == entry_names[CHOOSE k \in 1..Len(arg) : arg[k] = r]

\* The nodes the prober was given and did not return
DroppedNodes == Range(arg) \ Range(config.proxies)

\* C12: in the config build_config returns, the proxies list is the ranked
\* list the prober returned and every node of it carries its entry name with
\* a latency prefix; each of the three full-node groups lists exactly the
\* current names of the nodes of proxies, in the order of proxies; every
\* member of a populated region group is the current name of a node of
\* proxies; no member is a node's name without the prefix and none stands
\* for a dropped node.
C12_GroupsNameRankedNodes ==
  ConfigBuilt =>
    /\ config.proxies = proxies
    /\ \A r \in Range(config.proxies) :
         /\ r \in Range(arg)
         /\ \E l \in Latencies : all_proxies[r].name = LatencyName(l, EntryNameOf(r))
         /\ all_proxies[r].name # EntryNameOf(r)
    /\ \A g \in 1..Len(config.proxy_groups) :
         LET group == config.proxy_groups[g]
         IN  /\ group.name \in FullNodeGroups =>
                  /\ group.proxies = NodeNames
                  /\ Len(group.proxies) = Len(arg) - Cardinality(DroppedNodes)
             /\ (group.name \in Range(ALL_REGION_NAMES) /\ group.proxies # <<REJECT>>) =>
                  /\ Range(group.proxies) \subseteq Range(NodeNames)
                  /\ Len(group.proxies) <= Len(NodeNames)
             /\ (group.name \in FullNodeGroups \cup Range(ALL_REGION_NAMES)) =>
                  \A m \in 1..Len(group.proxies) :
                    /\ group.proxies[m] \notin Range(entry_names)
                    /\ \A r \in DroppedNodes : group.proxies[m] # all_proxies[r].name
    /\ Cardinality({g \in 1..Len(config.proxy_groups) :
                      config.proxy_groups[g].name \in FullNodeGroups}) = 3

\* C12's case: build_config ran on a ranked list of several renamed nodes
\* from which the prober had dropped one, with two regions populated
C12_Witness ==
  /\ pc = "built"
  /\ DroppedNodes # {}
  /\ Len(config.proxies) >= 2
  /\ Cardinality({g \in 1..Len(config.proxy_groups) :
                    /\ config.proxy_groups[g].name \in Range(ALL_REGION_NAMES)
                    /\ config.proxy_groups[g].proxies # <<REJECT>>}) >= 2

====
